---- MODULE Spec2Model ----
(***************************************************************************)
(* Simulation drivers of jsmfsb (src/src/jsmfsb/sim.py): simTs, simSample  *)
(* and simSampleMap, and the batched form of the ensemble sampler that     *)
(* the test suite calls (sim_sample with batch_size).                      *)
(*                                                                         *)
(* Times are integers (exact arithmetic on a grid of ticks).  A random key *)
(* is a tuple: <<s>> is a parent key, <<s, k, i>> is child i of the k-way  *)
(* split of <<s>>.  Rows, keys and matrices are indexed from 1: row j here *)
(* is row j-1 of the Python arrays.                                        *)
(***************************************************************************)
EXTENDS Integers, Sequences, FiniteSets, TLC

\* ---- bounds of the explored inputs ----
NumSeeds == 1
MaxN == 3
MaxT == 10
MaxDt == 3
MaxDeltat == 1

VARIABLES
    key,        \* the parent random key handed to the driver
    x0,         \* initial state vector
    t0,         \* initial time
    tt,         \* terminal time (simTs)
    dt,         \* output time step (simTs)
    n,          \* number of realisations (samplers)
    deltat,     \* time horizon of a realisation (samplers)
    batchSize,  \* batch_size (batched sampler)
    failing,    \* child indices on which the caller's stepFun raises
    todo,       \* driver functions still to be called on these inputs
    pc,         \* driver function currently executing, or "idle"
    keys,       \* result of jax.random.split in the current call
    carry,      \* the scan carry (x, t) of simTs
    pending,    \* vmap lanes of simSample not yet evaluated
    buf,        \* vmap output buffer of simSample
    mat,        \* rows stacked so far by the current call
    out,        \* outcome of each finished call
    log,        \* per function, the stepFun calls made, in execution order
    nsplit      \* per function, the number of jax.random.split calls made

vars == <<key, x0, t0, tt, dt, n, deltat, batchSize, failing, todo, pc, keys,
          carry, pending, buf, mat, out, log, nsplit>>

inputs == <<key, x0, t0, tt, dt, n, deltat, batchSize, failing>>

Samplers == {"simSample", "simSampleMap", "simSampleBatched"}
Fns == {"simTs"} \cup Samplers

Min(a, b) == IF a <= b THEN a ELSE b

\* Python's // on integers with a nonzero divisor: floor of the quotient.
FloorDiv(a, b) == IF b > 0 THEN a \div b ELSE (0 - a) \div (0 - b)

\* the step count without the trailing + 1
NumStepsNoPlusOne(a0, at, adt) == FloorDiv(at - a0, adt)

\* n = int((tt-t0) // dt) + 1
NumSteps(a0, at, adt) == FloorDiv(at - a0, adt) + 1

\* a split that hands the parent key itself to every lane
SplitReusesParent(k, num) == [i \in 1..num |-> k]

\* jax.random.split(key, num): a pure function of the parent and of num.
Split(k, num) == [i \in 1..num |-> k \o <<num, i>>]

KeyBits(k) == IF Len(k) = 1 THEN 1000 * k[1] ELSE 1000 * k[1] + 20 * k[2] + k[3]

\* The caller's step function: pure, deterministic, dimension preserving.
StepFun(k, x, t, d) ==
    [j \in 1..Len(x) |-> (3 * x[j] + j * KeyBits(k) + 7 * t + 13 * (d + 20)) % 1009]

\* The caller's step function raises on the child streams listed in failing.
StepRaises(k) == Len(k) = 3 /\ k[3] \in failing

Call(i, k, x, t, d) == [idx |-> i, key |-> k, x |-> x, t |-> t, dt |-> d]

NoOut == [status |-> "none", err |-> "", mat |-> <<>>]
Returned(m) == [status |-> "ok", err |-> "", mat |-> m]
Raised(e) == [status |-> "error", err |-> e, mat |-> <<>>]

InitStates == {<<50, 100>>, <<5>>}

Init ==
    /\ key \in {<<s>> : s \in 1..NumSeeds}
    /\ x0 \in InitStates
    /\ t0 \in 0..1
    /\ failing \in SUBSET (1..MaxN)
    /\ \/ /\ todo = {"simTs"}
          /\ tt \in 0..MaxT
          /\ dt \in (0 - MaxDt)..MaxDt
          /\ n = 1 /\ deltat = 1 /\ batchSize = 1
       \/ /\ todo = Samplers
          /\ n \in 1..MaxN
          /\ deltat \in 1..MaxDeltat
          /\ batchSize \in 1..MaxN
          /\ tt = t0 + 1 /\ dt = 1
    /\ pc = "idle"
    /\ keys = <<>>
    /\ carry = <<x0, t0>>
    /\ pending = {}
    /\ buf = <<>>
    /\ mat = <<>>
    /\ out = [f \in Fns |-> NoOut]
    /\ log = [f \in Fns |-> <<>>]
    /\ nsplit = [f \in Fns |-> 0]

Finish(f, o) ==
    /\ out' = [out EXCEPT ![f] = o]
    /\ pc' = "idle"

\* ------------------------------- simTs ---------------------------------

\* a scan body that steps from the carried state but does not carry the result
ScanBodyStateNotCarried(c, k) ==
    LET x == StepFun(k, c[1], c[2], dt)
    IN  <<(<<c[1], c[2] + dt>>), x>>

\* a scan body that never advances the carried time
ScanBodyTimeNotAdvanced(c, k) ==
    LET x == StepFun(k, c[1], c[2], dt)
    IN  <<(<<x, c[2]>>), x>>

\* body of the scanned function `advance`: ((x, t), key) -> ((x', t'), x')
ScanBody(c, k) ==
    LET x == StepFun(k, c[1], c[2], dt)
    IN  <<(<<x, c[2] + dt>>), x>>

\* n = int((tt-t0) // dt) + 1 ; keys = jax.random.split(key, n)
TsCall ==
    /\ pc = "idle" /\ "simTs" \in todo
    /\ todo' = todo \ {"simTs"}
    /\ IF dt = 0
       THEN /\ Finish("simTs", Raised("ZeroDivisionError"))
            /\ UNCHANGED <<keys, nsplit>>
       ELSE IF NumSteps(t0, tt, dt) < 0
       THEN /\ Finish("simTs", Raised("ValueError"))
            /\ UNCHANGED <<keys, nsplit>>
       ELSE /\ keys' = Split(key, NumSteps(t0, tt, dt))
            /\ nsplit' = [nsplit EXCEPT !["simTs"] = @ + 1]
            /\ pc' = "simTs"
            /\ UNCHANGED out
    /\ carry' = <<x0, t0>>
    /\ mat' = <<>>
    /\ UNCHANGED <<inputs, pending, buf, log>>

\* one iteration of jl.scan(advance, (x0, t0), keys)
TsStep ==
    /\ pc = "simTs" /\ Len(mat) < Len(keys)
    /\ LET i == Len(mat) + 1
           k == keys[i]
       IN  /\ log' = [log EXCEPT !["simTs"] = Append(@, Call(i, k, carry[1], carry[2], dt))]
           /\ IF StepRaises(k)
              THEN /\ Finish("simTs", Raised("StepFunctionError"))
                   /\ UNCHANGED <<carry, mat>>
              ELSE /\ carry' = ScanBody(carry, k)[1]
                   /\ mat' = Append(mat, ScanBody(carry, k)[2])
                   /\ UNCHANGED <<out, pc>>
    /\ UNCHANGED <<inputs, todo, keys, pending, buf, nsplit>>

\* _, mat = jl.scan(...) ; return mat
TsReturn ==
    /\ pc = "simTs" /\ Len(mat) = Len(keys)
    /\ Finish("simTs", Returned(mat))
    /\ UNCHANGED <<inputs, todo, keys, carry, pending, buf, mat, log, nsplit>>

\* ----------------------------- simSample -------------------------------

\* a vmapped function that steps from the end of the horizon
SampleRowFromHorizon(k) == StepFun(k, x0, t0 + deltat, deltat)

\* lambda k: stepFun(k, x0, t0, deltat)   (the vmapped function)
SampleRow(k) == StepFun(k, x0, t0, deltat)

\* a collection that stores rows in order of completion
VmapPutInArrivalOrder(b, i, row) ==
    LET free == {j \in 1..Len(b) : b[j] = <<>>}
        j == CHOOSE m \in free : \A o \in free : m <= o
    IN  [b EXCEPT ![j] = row]

\* jax.vmap writes the output of lane i to row i of the result
VmapPut(b, i, row) == [b EXCEPT ![i] = row]

\* keys = jax.random.split(key, n)
SampleCall ==
    /\ pc = "idle" /\ "simSample" \in todo
    /\ todo' = todo \ {"simSample"}
    /\ keys' = Split(key, n)
    /\ nsplit' = [nsplit EXCEPT !["simSample"] = @ + 1]
    /\ pending' = 1..n
    /\ buf' = [i \in 1..n |-> <<>>]
    /\ mat' = <<>>
    /\ pc' = "simSample"
    /\ UNCHANGED <<inputs, carry, out, log>>

\* mat = vstep(keys): the lanes are evaluated in no particular order
SampleEval ==
    /\ pc = "simSample"
    /\ \E i \in pending :
         /\ log' = [log EXCEPT !["simSample"] = Append(@, Call(i, keys[i], x0, t0, deltat))]
         /\ IF StepRaises(keys[i])
            THEN /\ Finish("simSample", Raised("StepFunctionError"))
                 /\ UNCHANGED <<pending, buf>>
            ELSE /\ buf' = VmapPut(buf, i, SampleRow(keys[i]))
                 /\ pending' = pending \ {i}
                 /\ UNCHANGED <<out, pc>>
    /\ UNCHANGED <<inputs, todo, keys, carry, mat, nsplit>>

\* return mat
SampleReturn ==
    /\ pc = "simSample" /\ pending = {}
    /\ Finish("simSample", Returned(buf))
    /\ UNCHANGED <<inputs, todo, keys, carry, pending, buf, mat, log, nsplit>>

\* ---------------------------- simSampleMap -----------------------------

\* a mapped function that passes t0 and deltat in each other's place
MapRowSwappedTimes(k) == StepFun(k, x0, deltat, t0)

\* lambda k: stepFun(k, x0, t0, deltat)   (the mapped function)
MapRow(k) == StepFun(k, x0, t0, deltat)

\* keys = jax.random.split(key, n)
MapCall ==
    /\ pc = "idle" /\ "simSampleMap" \in todo
    /\ todo' = todo \ {"simSampleMap"}
    /\ keys' = Split(key, n)
    /\ nsplit' = [nsplit EXCEPT !["simSampleMap"] = @ + 1]
    /\ mat' = <<>>
    /\ pc' = "simSampleMap"
    /\ UNCHANGED <<inputs, carry, pending, buf, out, log>>

\* a map iteration that swallows a failure and goes on with the next key
MapStepSwallowsFailure ==
    /\ pc = "simSampleMap" /\ Len(mat) < Len(keys)
    /\ LET i == Len(mat) + 1
       IN  /\ log' = [log EXCEPT !["simSampleMap"] = Append(@, Call(i, keys[i], x0, t0, deltat))]
           /\ mat' = Append(mat, IF StepRaises(keys[i]) THEN x0 ELSE MapRow(keys[i]))
           /\ UNCHANGED <<out, pc>>
    /\ UNCHANGED <<inputs, todo, keys, carry, pending, buf, nsplit>>

\* one iteration of jl.map(lambda k: ..., keys): the keys in index order
MapStep ==
    /\ pc = "simSampleMap" /\ Len(mat) < Len(keys)
    /\ LET i == Len(mat) + 1
       IN  /\ log' = [log EXCEPT !["simSampleMap"] = Append(@, Call(i, keys[i], x0, t0, deltat))]
           /\ IF StepRaises(keys[i])
              THEN /\ Finish("simSampleMap", Raised("StepFunctionError"))
                   /\ UNCHANGED mat
              ELSE /\ mat' = Append(mat, MapRow(keys[i]))
                   /\ UNCHANGED <<out, pc>>
    /\ UNCHANGED <<inputs, todo, keys, carry, pending, buf, nsplit>>

\* return mat
MapReturn ==
    /\ pc = "simSampleMap" /\ Len(mat) = Len(keys)
    /\ Finish("simSampleMap", Returned(mat))
    /\ UNCHANGED <<inputs, todo, keys, carry, pending, buf, mat, log, nsplit>>

\* ------------------- batched sampler (sim_sample, batch_size) ----------

\* the slice of the up-front split that feeds the group starting after row g
GroupKeys(ks, g) == SubSeq(ks, g + 1, Min(g + batchSize, Len(ks)))

\* realisation evaluated inside a group
BatchRow(k) == StepFun(k, x0, t0, deltat)

\* argument check, then the single n-way split
BatchCall ==
    /\ pc = "idle" /\ "simSampleBatched" \in todo
    /\ todo' = todo \ {"simSampleBatched"}
    /\ mat' = <<>>
    /\ IF n < 1 \/ batchSize < 1 \/ batchSize > n
       THEN /\ Finish("simSampleBatched", Raised("InvalidArgument"))
            /\ UNCHANGED <<keys, nsplit>>
       ELSE /\ keys' = Split(key, n)
            /\ nsplit' = [nsplit EXCEPT !["simSampleBatched"] = @ + 1]
            /\ pc' = "simSampleBatched"
            /\ UNCHANGED out
    /\ UNCHANGED <<inputs, carry, pending, buf, log>>

\* vectorised evaluation of the next group (it fails or succeeds as a whole),
\* its rows concatenated after those of the groups before it
BatchGroup ==
    /\ pc = "simSampleBatched" /\ Len(mat) < Len(keys)
    /\ LET g == Len(mat)
           gk == GroupKeys(keys, g)
       IN  /\ log' = [log EXCEPT !["simSampleBatched"] =
                          @ \o [j \in 1..Len(gk) |-> Call(g + j, gk[j], x0, t0, deltat)]]
           /\ IF \E j \in 1..Len(gk) : StepRaises(gk[j])
              THEN /\ Finish("simSampleBatched", Raised("StepFunctionError"))
                   /\ UNCHANGED mat
              ELSE /\ mat' = mat \o [j \in 1..Len(gk) |-> BatchRow(gk[j])]
                   /\ UNCHANGED <<out, pc>>
    /\ UNCHANGED <<inputs, todo, keys, carry, pending, buf, nsplit>>

BatchReturn ==
    /\ pc = "simSampleBatched" /\ Len(mat) = Len(keys)
    /\ Finish("simSampleBatched", Returned(mat))
    /\ UNCHANGED <<inputs, todo, keys, carry, pending, buf, mat, log, nsplit>>

Next ==
    \/ TsCall \/ TsStep \/ TsReturn
    \/ SampleCall \/ SampleEval \/ SampleReturn
    \/ MapCall \/ MapStep \/ MapReturn
    \/ BatchCall \/ BatchGroup \/ BatchReturn

Spec == Init /\ [][Next]_vars

TypeOK ==
    /\ pc \in Fns \cup {"idle"}
    /\ todo \subseteq Fns
    /\ \A f \in Fns : out[f].status \in {"none", "ok", "error"}

\* ------------------------------ properties -----------------------------

Done(f) == out[f].status = "ok"
Failed(f) == out[f].status = "error"

\* the child streams a function derives from the parent key
Children(f) == IF f = "simTs" THEN Split(key, NumSteps(t0, tt, dt)) ELSE Split(key, n)

C2_VmapEqualsMap ==
    (Done("simSample") /\ Done("simSampleMap")) =>
        out["simSample"].mat = out["simSampleMap"].mat

C2_Witness ==
    /\ Done("simSample") /\ Done("simSampleMap") /\ n >= 2
    /\ log["simSample"][1].idx # 1

TsRows == IF pc = "simTs" THEN mat ELSE out["simTs"].mat

\* C4: simTs is a sequential fold from (x0, t0): the first row is
\* stepFun(stream 1, x0, t0, dt), every later row is stepFun applied to the
\* previous row at the time advanced by dt per step, with the same dt; a row
\* is recorded only as the output of a stepFun call, never x0 itself.
C4_SequentialFold ==
    /\ \A i \in 1..Len(TsRows) :
           TsRows[i] = StepFun(keys[i], IF i = 1 THEN x0 ELSE TsRows[i - 1],
                               t0 + (i - 1) * dt, dt)
    /\ \A a \in 1..Len(log["simTs"]) :
           /\ log["simTs"][a].dt = dt
           /\ (a = 1) => log["simTs"][a].x = x0
           /\ (a > 1 /\ a - 1 <= Len(TsRows)) => log["simTs"][a].x = TsRows[a - 1]
    /\ Done("simTs") => Len(TsRows) = Len(log["simTs"])

C4_Witness ==
    /\ Done("simTs") /\ Len(out["simTs"].mat) >= 3

\* time at which the row produced by the a-th stepFun call of simTs holds
RecordedTime(a) == log["simTs"][a].t + log["simTs"][a].dt

\* C5: the last recorded time of simTs never passes tt, and is exactly tt
\* when dt divides tt - t0.
C5_LastRecordedTimeWithinTt ==
    (Done("simTs") /\ tt > t0 /\ dt > 0) =>
        /\ RecordedTime(Len(log["simTs"])) <= tt
        /\ ((tt - t0) % dt = 0) => RecordedTime(Len(log["simTs"])) = tt

\* C6: with dt <= 0 or tt <= t0, simTs ends in an error (whatever exception
\* carries it) before any stepFun call: no call is made, nothing is returned.
C6_InvalidArgumentBeforeAdvance ==
    (dt <= 0 \/ tt <= t0) =>
        /\ Len(log["simTs"]) = 0
        /\ ~Done("simTs")

\* C7: simTs, simSample and simSampleMap split the seed once; every stepFun
\* call gets a child of that split, no child is used twice, the parent is
\* never passed to stepFun, simTs and simSampleMap use child i for step i in
\* increasing order, and a call that returns has used every child once.
C7_StreamsUsedOnce ==
    \A f \in {"simTs", "simSample", "simSampleMap"} :
        /\ nsplit[f] <= 1
        /\ (Done(f) \/ Len(log[f]) > 0) => nsplit[f] = 1
        /\ \A a \in 1..Len(log[f]) :
              /\ log[f][a].key # key
              /\ log[f][a].idx \in 1..Len(Children(f))
              /\ log[f][a].key = Children(f)[log[f][a].idx]
              /\ (f # "simSample") => log[f][a].idx = a
              /\ \A b \in 1..Len(log[f]) : (a # b) => log[f][a].key # log[f][b].key
        /\ (f = "simTs" /\ dt > 0) =>
              \A a \in 2..Len(log[f]) : log[f][a - 1].t < log[f][a].t
        /\ Done(f) => {log[f][a].idx : a \in 1..Len(log[f])} = 1..Len(Children(f))

C7_Witness ==
    /\ Done("simSample") /\ Done("simSampleMap") /\ n >= 3

\* C8: every stepFun call of an ensemble gets the same (x0, t0, deltat), and
\* in whatever order the n calls run the result has n rows with row i equal
\* to stepFun(stream i, x0, t0, deltat).
C8_OrderIndependent ==
    \A f \in {"simSample", "simSampleMap"} :
        /\ \A a \in 1..Len(log[f]) :
              log[f][a].x = x0 /\ log[f][a].t = t0 /\ log[f][a].dt = deltat
        /\ Done(f) =>
              /\ Len(out[f].mat) = n
              /\ \A i \in 1..n : out[f].mat[i] = StepFun(Split(key, n)[i], x0, t0, deltat)

C8_Witness ==
    /\ Done("simSample") /\ n >= 3
    /\ log["simSample"][1].idx > log["simSample"][2].idx
    /\ log["simSample"][2].idx < log["simSample"][3].idx

\* C9: when stepFun fails for realisation i, simSampleMap fails at once with
\* that error: realisations 1..i were each called once, none after i is
\* called, and no ensemble, partial or full, is returned.
C9_MapAbortsOnFailure ==
    LET L == log["simSampleMap"]
        bad == {i \in 1..n : i \in failing}
    IN  /\ \A a \in 1..Len(L) :
              /\ L[a].idx = a
              /\ (a \in failing) =>
                    /\ a = Len(L)
                    /\ Failed("simSampleMap")
                    /\ pc # "simSampleMap"
        /\ Failed("simSampleMap") =>
              /\ out["simSampleMap"].err = "StepFunctionError"
              /\ out["simSampleMap"].mat = <<>>
              /\ Len(L) \in bad
              /\ \A i \in bad : Len(L) <= i
        /\ (bad # {}) => ~Done("simSampleMap")

C9_Witness ==
    /\ Failed("simSampleMap")
    /\ Len(log["simSampleMap"]) = 2 /\ n >= 3

====
